---- MODULE Spec2Model ----
(***************************************************************************)
(* A model of the dependency-injection core of fastapi-injector:           *)
(* custom_injector/core.py (Injector.bind, Injector.get),                  *)
(* custom_injector/scopes.py (TransientScope, SingletonScope) and          *)
(* custom_injector/providers.py (ValueProvider, ClassProvider,             *)
(* FactoryProvider, _resolve_dependencies), and of the request scope built *)
(* on it: fastapi_injector/request_scope.py (RequestScope,                 *)
(* RequestScopeFactory, InjectorMiddleware).                               *)
(*                                                                         *)
(* Python objects are records with a "kind" field.  Keys, classes and      *)
(* callables are named by strings.  A dict is a function whose DOMAIN is   *)
(* the set of its keys.  A call returns a record [st, outcome, value]:     *)
(* outcome is "ok" or the name of the exception class that was raised.     *)
(***************************************************************************)
EXTENDS Naturals, Sequences, FiniteSets, TLC

VARIABLES
    bindings,             \* Injector._bindings: key -> Binding
    instances,            \* Injector._instances: key -> cached instance
    currently_resolving,  \* Injector._currently_resolving
    scopes_instances,     \* Injector._scopes_instances: scope class -> scope instance
    last,                 \* the last call made on the injector and what it returned
    executed,             \* the keys whose provider the Singleton scope has executed
    succeeded,            \* those of them whose provider has returned
    request_scopes,       \* the RequestScope objects: sid -> [options, cache]
    tasks,                \* task -> [ctx, open]: the value of _request_id_ctx in the
                          \* task's context and the create_scope blocks it is inside
    requests,             \* the number of request ids made so far
    middleware,           \* InjectorMiddleware.request_scope_factory, once constructed
    objects,              \* instances the request scope made: where, entered, exited
    served,               \* <<request id, key>> -> what the first get in the session returned
    cleared,              \* the request ids whose clear_key has completed
    app,                  \* app.state.injector is set, and the options attach_injector got
    threads               \* thread -> where its Injector.get stands and its local variables

vars == <<bindings, instances, currently_resolving, scopes_instances, last, executed,
          succeeded, request_scopes, tasks, requests, middleware, objects, served, cleared,
          app, threads>>

---------------------------------------------------------------------------
(* Bounds of the model.                                                    *)

\* Object identities available to the instances that are alive at one time.
MaxObjs == 8
\* Request sessions opened in one run.
MaxRequests == 2

---------------------------------------------------------------------------
(* The program text the injector is used on: the classes, callables and    *)
(* keys of the test-suite, and factories in the shape of its factories.    *)

None == "None"
EMPTY == "EMPTY"    \* inspect.Parameter.empty

ConcreteServiceA == "ConcreteServiceA"
ServiceInterface == "ServiceInterface"
ServiceWithDependency == "ServiceWithDependency"
CircularA == "CircularA"
CircularB == "CircularB"
\* The forward references 'CircularA' and 'CircularB' as inspect.signature
\* reports them: plain strings, not classes.
StrCircularA == "'CircularA'"
StrCircularB == "'CircularB'"

\* The builtin types int, str and bool, used as keys.
int == "int"
str == "str"
bool == "bool"
Builtins == {int, str, bool}

\* The classes of request_scope.py and the Injector class itself, the
\* annotation of RequestScope.__init__.
RequestScope == "RequestScope"
RequestScopeOptions == "RequestScopeOptions"
RequestScopeFactory == "RequestScopeFactory"
InjectorType == "Injector"
AsyncExitStack == "AsyncExitStack"
RequestClasses == {RequestScope, RequestScopeOptions, RequestScopeFactory, InjectorType}

\* Dependencies that implement the context-manager protocol: Resource leaves
\* its context normally, the __exit__ of FailingResource raises.
Resource == "Resource"
FailingResource == "FailingResource"
ContextManagers == {Resource, FailingResource}
\* isinstance(obj, AbstractContextManager)
IsContextManager(cls) == cls \in ContextManagers
ExitRaises(cls) == cls = FailingResource

\* class ServiceWithDefaultUnannotated: def __init__(self, name="default_name")
ServiceWithDefaultUnannotated == "ServiceWithDefaultUnannotated"
\* class ServiceWithAnnotatedDefault:
\*     def __init__(self, name: str = "default_name", age: int = 30)
ServiceWithAnnotatedDefault == "ServiceWithAnnotatedDefault"
\* A class whose constructor has both kinds of parameter:
\*     def __init__(self, name="default_name", age: int = 30)
ServiceWithMixedDefaults == "ServiceWithMixedDefaults"
\* The same with the annotated parameter first:
\*     def __init__(self, age: int = 30, name="default_name")
ServiceWithTrailingDefault == "ServiceWithTrailingDefault"

\* A class with two dependencies, as DepClient of the tests:
\*     def __init__(self, a: ConcreteServiceA, service: ServiceInterface)
ServiceWithTwoDependencies == "ServiceWithTwoDependencies"

\* Classes whose constructors take only variadic parameters:
\*     def __init__(self, *args: ConcreteServiceA)
\*     def __init__(self, **options: ServiceInterface)
\*     def __init__(self, *args, **kwargs)
ServiceWithVarArgs == "ServiceWithVarArgs"
ServiceWithVarKwargs == "ServiceWithVarKwargs"
ServiceWithPlainVariadics == "ServiceWithPlainVariadics"
VariadicClasses == {ServiceWithVarArgs, ServiceWithVarKwargs, ServiceWithPlainVariadics}

DefaultClasses ==
    {ServiceWithDefaultUnannotated, ServiceWithAnnotatedDefault, ServiceWithMixedDefaults,
     ServiceWithTrailingDefault}

Classes ==
    {ConcreteServiceA, ServiceInterface, ServiceWithDependency, CircularA, CircularB,
     ServiceWithTwoDependencies}
        \cup VariadicClasses
        \cup Builtins \cup DefaultClasses \cup RequestClasses \cup ContextManagers
StrKeys == {StrCircularA, StrCircularB}
Keys == Classes \cup StrKeys

\* isinstance(key, type)
IsType(key) == key \in Classes

\* Classes with an abstractmethod: calling them raises TypeError.
IsAbstract(cls) == cls = ServiceInterface

Param(name, annotation, has_default, kind) ==
    [name |-> name, annotation |-> annotation, has_default |-> has_default, kind |-> kind]

SelfParam == Param("self", EMPTY, FALSE, "POSITIONAL_OR_KEYWORD")

\* cls.__init__ is object.__init__
HasObjectInit(cls) ==
    cls \in {ConcreteServiceA, ServiceInterface} \cup Builtins \cup ContextManagers

\* inspect.signature(cls.__init__).parameters
InitParams(cls) ==
    CASE cls = ServiceWithDependency ->
            <<SelfParam, Param("service", ServiceInterface, FALSE, "POSITIONAL_OR_KEYWORD")>>
      [] cls = ServiceWithTwoDependencies ->
            <<SelfParam, Param("a", ConcreteServiceA, FALSE, "POSITIONAL_OR_KEYWORD"),
              Param("service", ServiceInterface, FALSE, "POSITIONAL_OR_KEYWORD")>>
      [] cls = ServiceWithVarArgs ->
            <<SelfParam, Param("args", ConcreteServiceA, FALSE, "VAR_POSITIONAL")>>
      [] cls = ServiceWithVarKwargs ->
            <<SelfParam, Param("options", ServiceInterface, FALSE, "VAR_KEYWORD")>>
      [] cls = ServiceWithPlainVariadics ->
            <<SelfParam, Param("args", EMPTY, FALSE, "VAR_POSITIONAL"),
              Param("kwargs", EMPTY, FALSE, "VAR_KEYWORD")>>
      [] cls = CircularA ->
            <<SelfParam, Param("b", StrCircularB, FALSE, "POSITIONAL_OR_KEYWORD")>>
      [] cls = CircularB ->
            <<SelfParam, Param("a", StrCircularA, FALSE, "POSITIONAL_OR_KEYWORD")>>
      [] cls = RequestScopeOptions ->   \* @dataclass: enable_cleanup: bool = False
            <<SelfParam, Param("enable_cleanup", bool, TRUE, "POSITIONAL_OR_KEYWORD")>>
      [] cls = RequestScope ->
            <<SelfParam, Param("injector", InjectorType, FALSE, "POSITIONAL_OR_KEYWORD")>>
      [] cls = RequestScopeFactory ->
            <<SelfParam,
              Param("request_scope_instance", RequestScope, FALSE, "POSITIONAL_OR_KEYWORD")>>
      [] cls = ServiceWithDefaultUnannotated ->
            <<SelfParam, Param("name", EMPTY, TRUE, "POSITIONAL_OR_KEYWORD")>>
      [] cls = ServiceWithAnnotatedDefault ->
            <<SelfParam, Param("name", str, TRUE, "POSITIONAL_OR_KEYWORD"),
              Param("age", int, TRUE, "POSITIONAL_OR_KEYWORD")>>
      [] cls = ServiceWithMixedDefaults ->
            <<SelfParam, Param("name", EMPTY, TRUE, "POSITIONAL_OR_KEYWORD"),
              Param("age", int, TRUE, "POSITIONAL_OR_KEYWORD")>>
      [] cls = ServiceWithTrailingDefault ->
            <<SelfParam, Param("age", int, TRUE, "POSITIONAL_OR_KEYWORD"),
              Param("name", EMPTY, TRUE, "POSITIONAL_OR_KEYWORD")>>
      [] OTHER -> <<SelfParam>>

\* Factories: module-level functions of one annotated parameter, as
\* factory_service_c(val: int), each returning a new object.
from_a == "from_a"                  \* def from_a(a: ConcreteServiceA)
from_dependent == "from_dependent"  \* def from_dependent(dep: ServiceWithDependency)
Factories == {from_a, from_dependent}

FactoryParams(factory) ==
    CASE factory = from_a ->
            <<Param("a", ConcreteServiceA, FALSE, "POSITIONAL_OR_KEYWORD")>>
      [] factory = from_dependent ->
            <<Param("dep", ServiceWithDependency, FALSE, "POSITIONAL_OR_KEYWORD")>>

\* inspect.ismethod(f) or (isfunction(f) and '.' in f.__qualname__)
FactoryIsMethod(factory) == FALSE

---------------------------------------------------------------------------
(* Values.                                                                 *)

NoneValue == [kind |-> "None"]
IntValue(n) == [kind |-> "int", n |-> n]
StrValue(s) == [kind |-> "str", s |-> s]
BoolValue(b) == [kind |-> "bool", b |-> b]
\* RequestScopeOptions(enable_cleanup=b)
OptionsValue(b) == [kind |-> "options", enable_cleanup |-> b]
\* The injector of the model, as an argument.
SelfInjector == [kind |-> "injector"]
\* No request id: _request_id_ctx has no value.
NoRequest == 0
\* An instance of a class: cls and id are its identity (id tells the live
\* instances of one class apart), fields the arguments its constructor (or
\* factory) was called with, by parameter name.
Instance(cls, id, fields) == [kind |-> "instance", cls |-> cls, id |-> id, fields |-> fields]
\* A parameter no argument was passed for: the callee uses its declared default.
DefaultOf(name) == [kind |-> "default", name |-> name]

RECURSIVE IdsOf(_)
\* The identities of the instances reachable from a value.
IdsOf(value) ==
    IF value.kind = "instance"
    THEN {<<value.cls, value.id>>} \cup UNION {IdsOf(value.fields[n]) : n \in DOMAIN value.fields}
    ELSE {}

\* The identity of a newly allocated instance of cls: one no live object has.
FreshId(used, cls) ==
    CHOOSE i \in 1..MaxObjs :
        <<cls, i>> \notin used /\ \A j \in 1..(i - 1) : <<cls, j>> \in used

---------------------------------------------------------------------------
(* Calls.  The state a call works on is a record st of the injector's      *)
(* fields, the identities in use, the trace of provider executions and    *)
(* the keys that were auto-bound.                                          *)

Ok(st, value) == [st |-> st, outcome |-> "ok", value |-> value]
\* The value of a one-element set: TheOne({F(r) : r \in {e}}) is F(e), with
\* e, the outcome of a call, evaluated once.
TheOne(S) == CHOOSE x \in S : TRUE
Raise(st, exception) == [st |-> st, outcome |-> exception, value |-> NoneValue]

IsPositional(p) == p.kind \in {"POSITIONAL_ONLY", "POSITIONAL_OR_KEYWORD"}
IsVariadic(p) == p.kind \in {"VAR_POSITIONAL", "VAR_KEYWORD"}

\* Python's binding of the arguments of callable(*args, **kwargs) to the
\* parameters, of which pos are the positional ones: [ok, fields]; ok is
\* FALSE when the call raises TypeError.
BindArguments(params, pos, args, kwargs) ==
    LET all == {params[i] : i \in 1..Len(params)}
        named == {p \in all : ~IsVariadic(p)}
        hasVarPos == \E p \in all : p.kind = "VAR_POSITIONAL"
        hasVarKw == \E p \in all : p.kind = "VAR_KEYWORD"
        posIndex(p) == CHOOSE i \in 1..Len(pos) : pos[i].name = p.name
        byPosition(p) == IsPositional(p) /\ posIndex(p) <= Len(args)
        byKeyword(p) == p.kind # "POSITIONAL_ONLY" /\ p.name \in DOMAIN kwargs
        typeError ==
            \/ Len(args) > Len(pos) /\ ~hasVarPos
            \/ \E n \in DOMAIN kwargs :
                  /\ ~hasVarKw
                  /\ ~\E p \in named : p.name = n /\ p.kind # "POSITIONAL_ONLY"
            \/ \E p \in named : byPosition(p) /\ byKeyword(p)
            \/ \E p \in named : ~byPosition(p) /\ ~byKeyword(p) /\ ~p.has_default
        valueOf(p) ==
            IF byPosition(p) THEN args[posIndex(p)]
            ELSE IF byKeyword(p) THEN kwargs[p.name]
            ELSE DefaultOf(p.name)
        fields == [n \in {p.name : p \in named} |->
                      valueOf(CHOOSE p \in named : p.name = n)]
    IN  IF typeError THEN [ok |-> FALSE, fields |-> <<>>]
        ELSE [ok |-> TRUE, fields |-> fields]

CallFields(params, args, kwargs) ==
    BindArguments(params, SelectSeq(params, IsPositional), args, kwargs)

RECURSIVE Get(_, _)
RECURSIVE RequestScopeInit(_, _)

\* A new object is allocated: it gets an identity no live object has.
NewInstance(st, cls, fields) ==
    LET id == FreshId(st.used, cls)
    IN  Ok([st EXCEPT !.used = @ \cup {<<cls, id>>}], Instance(cls, id, fields))

\* The object cls makes of the arguments `call` binds to its parameters.
ConstructFrom(st, cls, call) ==
    IF IsAbstract(cls) \/ ~call.ok
    THEN Raise(st, "TypeError")
    ELSE IF cls = int
    THEN Ok(st, IntValue(0))       \* int() == 0
    ELSE IF cls = str
    THEN Ok(st, StrValue(""))      \* str() == ""
    ELSE IF cls = bool
    THEN Ok(st, BoolValue(FALSE))  \* bool() == False
    ELSE IF cls = RequestScopeOptions
    THEN LET flag == call.fields["enable_cleanup"]
         IN  Ok(st, OptionsValue(IF flag.kind = "bool" THEN flag.b ELSE FALSE))
    ELSE IF cls = RequestScope
    THEN RequestScopeInit(st, call.fields["injector"])
    ELSE NewInstance(st, cls, call.fields)

\* self._cls(*args, **kwargs)
Construct(st, cls, args, kwargs) ==
    ConstructFrom(st, cls,
                  CallFields(IF HasObjectInit(cls) THEN <<>> ELSE Tail(InitParams(cls)),
                             args, kwargs))

\* self._factory(*args, **kwargs): the factories return a new object.
FactoryReturn(st, factory, call) ==
    IF ~call.ok
    THEN Raise(st, "TypeError")
    ELSE NewInstance(st, factory, call.fields)

CallFactory(st, factory, args, kwargs) ==
    FactoryReturn(st, factory, CallFields(FactoryParams(factory), args, kwargs))

---------------------------------------------------------------------------
(* core.py: Injector._get_scope_instance and Injector.bind                 *)

TransientScope == "TransientScope"
SingletonScope == "SingletonScope"
ScopeClasses == {TransientScope, SingletonScope}

ScopeInstance(scope_class, sid) == [kind |-> "scope", cls |-> scope_class, sid |-> sid]

\* An injector as Injector() makes it, for the nested gets of a call on st.
EmptyInjector(st) ==
    [st EXCEPT !.bindings = <<>>, !.instances = <<>>, !.scopes_instances = <<>>,
               !.currently_resolving = {}]

\* RequestScope.__init__(self, injector): the options are taken from the
\* injector handed in, which is the injector itself or one Injector() made.
RequestScopeInit(st, injector) ==
    IF injector # SelfInjector /\ ~(injector.kind = "instance" /\ injector.cls = InjectorType)
    THEN Raise(st, "AttributeError")
    ELSE TheOne({
           LET own == injector # SelfInjector
               after == IF own THEN [st EXCEPT !.used = r.st.used] ELSE r.st
               sid == Cardinality(DOMAIN after.request_scopes) + 1
           IN  IF r.outcome # "ok"
               THEN [r EXCEPT !.st = after]
               ELSE Ok([after EXCEPT !.request_scopes =
                                        (sid :> [options |-> r.value, cache |-> <<>>]) @@ @],
                       ScopeInstance(RequestScope, sid)) :
           r \in {Get(IF injector # SelfInjector THEN EmptyInjector(st) ELSE st,
                      RequestScopeOptions)}})

\* The scope instances that are alive.
LiveScopes(st) ==
    {st.scopes_instances[c] : c \in DOMAIN st.scopes_instances}
        \cup {st.bindings[k].scope : k \in DOMAIN st.bindings}

\* scope_class(self) and scope_class(): Scope.__init__ takes an optional injector.
NewScope(st, scope_class, with_injector) ==
    LET sid == CHOOSE i \in 1..(Cardinality(LiveScopes(st)) + 1) :
                    /\ ScopeInstance(scope_class, i) \notin LiveScopes(st)
                    /\ \A j \in 1..(i - 1) : ScopeInstance(scope_class, j) \in LiveScopes(st)
    IN  IF scope_class # RequestScope
        THEN Ok(st, ScopeInstance(scope_class, sid))
        ELSE IF with_injector
        THEN RequestScopeInit(st, SelfInjector)
        ELSE Raise(st, "TypeError")    \* RequestScope(): injector is missing

\* self._scopes_instances[scope_class] = scope_instance
StoreScope(st, scope_class, scope_instance) ==
    [st EXCEPT !.scopes_instances = (scope_class :> scope_instance) @@ @]

\* A _get_scope_instance that makes a scope instance for every call.
GetScopeInstanceUncached(st, scope_class) ==
    LET r == NewScope(st, scope_class, TRUE)
    IN  Ok(StoreScope(r.st, scope_class, r.value), r.value)

\* except Exception as e: raise BindingError(...), around the outcome r2 of
\* scope_class(); what it made is stored in self._scopes_instances
ScopeFallback(r2, scope_class) ==
    IF r2.outcome # "ok"
    THEN Raise(r2.st, "BindingError")
    ELSE Ok(StoreScope(r2.st, scope_class, r2.value), r2.value)

\* except TypeError, around the outcome r1 of scope_class(self): scope_class()
\* is tried; any other error of scope_class(self) is not caught
ScopeTried(r1, scope_class) ==
    IF r1.outcome = "TypeError"
    THEN TheOne({ScopeFallback(r2, scope_class) : r2 \in {NewScope(r1.st, scope_class, FALSE)}})
    ELSE IF r1.outcome # "ok"
    THEN r1
    ELSE Ok(StoreScope(r1.st, scope_class, r1.value), r1.value)

\* Injector._get_scope_instance
GetScopeInstance(st, scope_class) ==
    IF scope_class \notin DOMAIN st.scopes_instances
    THEN TheOne({ScopeTried(r1, scope_class) : r1 \in {NewScope(st, scope_class, TRUE)}})
    ELSE Ok(st, st.scopes_instances[scope_class])

ClassProvider(cls) == [kind |-> "ClassProvider", cls |-> cls]
FactoryProvider(factory) == [kind |-> "FactoryProvider", factory |-> factory]
ValueProvider(value) == [kind |-> "ValueProvider", value |-> value]
Binding(key, provider, scope) == [key |-> key, provider |-> provider, scope |-> scope]

\* [to_class, to_factory, to_value].count(None)
CountNone(to_class, to_factory, to_value) ==
    (IF to_class = None THEN 1 ELSE 0)
        + (IF to_factory = None THEN 1 ELSE 0)
        + (IF to_value = NoneValue THEN 1 ELSE 0)

\* self._bindings[key] = Binding(key, provider, scope_instance), for the
\* outcome r of self._get_scope_instance(scope)
Registered(r, key, provider) ==
    IF r.outcome # "ok"
    THEN r
    ELSE Ok([r.st EXCEPT !.bindings = (key :> Binding(key, provider, r.value)) @@ @],
            NoneValue)

\* self._bindings[key] = Binding(key, provider, self._get_scope_instance(scope))
Register(st, key, provider, scope) ==
    TheOne({Registered(r, key, provider) : r \in {GetScopeInstance(st, scope)}})

\* The provider bind makes: ClassProvider(to_class), FactoryProvider(to_factory)
\* or ValueProvider(to_value) for the argument that is not None, and
\* ClassProvider(key) when all are None and key is a type.
ProviderOf(key, to_class, to_factory, to_value) ==
    IF to_class # None
    THEN ClassProvider(to_class)
    ELSE IF to_factory # None
    THEN FactoryProvider(to_factory)
    ELSE IF to_value # NoneValue
    THEN ValueProvider(to_value)
    ELSE ClassProvider(key)

\* Injector.bind(key, to_class=, to_factory=, to_value=, scope=); an argument
\* the caller leaves out arrives as its default, None.
Bind(st, key, to_class, to_factory, to_value, scope) ==
    IF CountNone(to_class, to_factory, to_value) < 2
    THEN Raise(st, "BindingError")
    ELSE IF CountNone(to_class, to_factory, to_value) = 3 /\ ~IsType(key)
    THEN Raise(st, "BindingError")
    ELSE Register(st, key, ProviderOf(key, to_class, to_factory, to_value), scope)

---------------------------------------------------------------------------
(* providers.py, scopes.py and Injector.get                                *)

RECURSIVE ResolveParams(_, _, _, _, _)

\* A resolver that resolves the annotation on an injector of its own.
ResolveParamsOwnInjector(st, params, i, args_to_pass, kwargs_to_pass) ==
    IF i > Len(params)
    THEN Ok(st, [args |-> args_to_pass, kwargs |-> kwargs_to_pass])
    ELSE LET param == params[i]
             own == [st EXCEPT !.bindings = <<>>, !.instances = <<>>,
                               !.scopes_instances = <<>>, !.currently_resolving = {}]
         IN  IF param.annotation = EMPTY
             THEN ResolveParams(st, params, i + 1, args_to_pass, kwargs_to_pass)
             ELSE LET r == Get(own, param.annotation)
                  IN  IF r.outcome # "ok"
                      THEN Raise(st, r.outcome)
                      ELSE ResolveParams([st EXCEPT !.used = r.st.used], params, i + 1,
                                         Append(args_to_pass, r.value), kwargs_to_pass)

\* A resolver that wraps the error of a nested get in a ResolutionError.
ResolveParamsWrapping(st, params, i, args_to_pass, kwargs_to_pass) ==
    IF i > Len(params)
    THEN Ok(st, [args |-> args_to_pass, kwargs |-> kwargs_to_pass])
    ELSE LET param == params[i]
         IN  IF param.annotation = EMPTY
             THEN ResolveParams(st, params, i + 1, args_to_pass, kwargs_to_pass)
             ELSE LET r == Get(st, param.annotation)
                  IN  IF r.outcome # "ok"
                      THEN Raise(r.st, "ResolutionError")
                      ELSE ResolveParams(r.st, params, i + 1,
                                         Append(args_to_pass, r.value), kwargs_to_pass)

\* The for-loop of _resolve_dependencies over params[i..]: a parameter with
\* an annotation is resolved by injector.get and put with the positional or
\* the keyword arguments by its kind; an error of the nested get is re-raised.
ResolveParams(st, params, i, args_to_pass, kwargs_to_pass) ==
    IF i > Len(params)
    THEN Ok(st, [args |-> args_to_pass, kwargs |-> kwargs_to_pass])
    ELSE LET param == params[i]
         IN  IF param.annotation = EMPTY
             THEN ResolveParams(st, params, i + 1, args_to_pass, kwargs_to_pass)
             ELSE LET r == Get(st, param.annotation)
                  IN  IF r.outcome # "ok"
                      THEN r
                      ELSE IF IsPositional(param)
                      THEN ResolveParams(r.st, params, i + 1,
                                         Append(args_to_pass, r.value), kwargs_to_pass)
                      ELSE IF param.kind = "KEYWORD_ONLY"
                      THEN ResolveParams(r.st, params, i + 1, args_to_pass,
                                         (param.name :> r.value) @@ kwargs_to_pass)
                      ELSE ResolveParams(r.st, params, i + 1, args_to_pass, kwargs_to_pass)

\* _resolve_dependencies(injector, callable_to_inspect, is_method)
ResolveDependencies(st, params, is_method) ==
    LET rest == IF is_method /\ Len(params) > 0 /\ params[1].name \in {"self", "cls"}
                THEN Tail(params)
                ELSE params
    IN  ResolveParams(st, rest, 1, <<>>, <<>>)

\* ValueProvider.get_instance
ValueProviderGetInstance(st, value) == Ok(st, value)

\* return self._cls(*args, **kwargs), for the outcome r of
\* _resolve_dependencies: its error leaves get_instance
ConstructResolved(r, cls) ==
    IF r.outcome # "ok"
    THEN r
    ELSE Construct(r.st, cls, r.value.args, r.value.kwargs)

\* ClassProvider.get_instance
ClassProviderGetInstance(st, cls) ==
    IF HasObjectInit(cls)
    THEN Construct(st, cls, <<>>, <<>>)
    ELSE ConstructResolved(ResolveDependencies(st, InitParams(cls), TRUE), cls)

\* return self._factory(*args, **kwargs), for the outcome r of
\* _resolve_dependencies
CallResolved(r, factory) ==
    IF r.outcome # "ok"
    THEN r
    ELSE CallFactory(r.st, factory, r.value.args, r.value.kwargs)

\* FactoryProvider.get_instance
FactoryProviderGetInstance(st, factory) ==
    CallResolved(ResolveDependencies(st, FactoryParams(factory), FactoryIsMethod(factory)),
                 factory)

\* provider_callable(), that is binding.provider.get_instance(self), called by
\* the scope `scope` for the key `key`; the execution is added to the trace.
Executed(r, key, scope) ==
    [r EXCEPT !.st.trace = Append(@, [key |-> key, scope |-> scope, ok |-> r.outcome = "ok"])]

ProviderCallable(st, key, provider, scope) ==
    Executed(CASE provider.kind = "ValueProvider" ->
                    ValueProviderGetInstance(st, provider.value)
               [] provider.kind = "ClassProvider" ->
                    ClassProviderGetInstance(st, provider.cls)
               [] provider.kind = "FactoryProvider" ->
                    FactoryProviderGetInstance(st, provider.factory),
             key, scope)

\* injector_cache[binding_key] = instance
CacheStore(st, binding_key, instance) ==
    [st EXCEPT !.instances = (binding_key :> instance) @@ @]

\* A Transient scope that keeps what it made in the injector's cache.
TransientGetInstanceCaching(st, binding_key, provider) ==
    IF binding_key \notin DOMAIN st.instances
    THEN LET r == ProviderCallable(st, binding_key, provider, TransientScope)
         IN  IF r.outcome # "ok" THEN r
             ELSE Ok(CacheStore(r.st, binding_key, r.value), r.value)
    ELSE Ok(st, st.instances[binding_key])

\* TransientScope.get_instance
TransientGetInstance(st, binding_key, provider) ==
    ProviderCallable(st, binding_key, provider, TransientScope)

\* A Singleton scope that does not look into the cache before it calls the provider.
SingletonGetInstanceNoLookup(st, binding_key, provider) ==
    LET r == ProviderCallable(st, binding_key, provider, SingletonScope)
    IN  IF r.outcome # "ok" THEN r
        ELSE Ok(CacheStore(r.st, binding_key, r.value), r.value)

\* A Singleton scope that returns what the provider made without storing it.
SingletonGetInstanceNoStore(st, binding_key, provider) ==
    IF binding_key \notin DOMAIN st.instances
    THEN ProviderCallable(st, binding_key, provider, SingletonScope)
    ELSE Ok(st, st.instances[binding_key])

\* injector_cache[binding_key] = instance, for the outcome r of
\* provider_callable(), and return injector_cache[binding_key]
SingletonKeep(r, binding_key) ==
    IF r.outcome # "ok"
    THEN r
    ELSE Ok(CacheStore(r.st, binding_key, r.value),
            CacheStore(r.st, binding_key, r.value).instances[binding_key])

\* SingletonScope.get_instance
SingletonGetInstance(st, binding_key, provider) ==
    IF binding_key \notin DOMAIN st.instances
    THEN SingletonKeep(ProviderCallable(st, binding_key, provider, SingletonScope),
                       binding_key)
    ELSE Ok(st, st.instances[binding_key])

\* The request scope sid with the dict cache[request_id] made if missing and
\* an AsyncExitStack put into it if it has none.
WithStack(st, sid, request_id) ==
    LET cache == st.request_scopes[sid].cache
        entry == IF request_id \in DOMAIN cache THEN cache[request_id] ELSE <<>>
        stacked == IF AsyncExitStack \in DOMAIN entry
                   THEN entry
                   ELSE (AsyncExitStack :> [kind |-> "stack", cms |-> <<>>]) @@ entry
    IN  [st EXCEPT !.request_scopes[sid].cache = (request_id :> stacked) @@ @]

\* The request scope made `dependency` in the session request_id.
Note(st, dependency, request_id, cleanup) ==
    IF dependency.kind # "instance"
    THEN st
    ELSE [st EXCEPT !.objects =
              (<<dependency.cls, dependency.id>> :>
                  [rid |-> request_id, cleanup |-> cleanup, entered |-> 0, exited |-> 0])
              @@ @]

\* if stack: self._register(dependency, stack), which is
\* stack.enter_context(obj) for a context manager
RegisterCleanup(st, sid, request_id, dependency, has_stack) ==
    IF has_stack /\ dependency.kind = "instance" /\ IsContextManager(dependency.cls)
    THEN LET obj == <<dependency.cls, dependency.id>>
         IN  [st EXCEPT !.request_scopes[sid].cache[request_id][AsyncExitStack].cms =
                            Append(@, obj),
                        !.objects[obj].entered = @ + 1]
    ELSE st

\* self.cache[request_id][binding_key] = dependency
RequestCacheStore(st, sid, request_id, binding_key, dependency) ==
    [st EXCEPT !.request_scopes[sid].cache[request_id] = (binding_key :> dependency) @@ @]

\* A request scope that serves a key from the cache of any session.
RequestGetInstanceShared(st, scope, binding_key, provider) ==
    LET cache == st.request_scopes[scope.sid].cache
        holders == {r \in DOMAIN cache : binding_key \in DOMAIN cache[r]}
    IN  IF st.ctx = NoRequest
        THEN Raise(st, "RequestScopeError")
        ELSE IF holders # {}
        THEN Ok(st, cache[CHOOSE r \in holders : TRUE][binding_key])
        ELSE LET r == ProviderCallable(st, binding_key, provider, RequestScope)
             IN  IF r.outcome # "ok" THEN r
                 ELSE Ok(Note(RequestCacheStore(r.st, scope.sid, st.ctx, binding_key, r.value),
                              r.value, st.ctx, FALSE),
                         r.value)

\* A request scope that calls the provider on every get.
RequestGetInstanceUncached(st, scope, binding_key, provider) ==
    IF st.ctx = NoRequest
    THEN Raise(st, "RequestScopeError")
    ELSE LET r == ProviderCallable(st, binding_key, provider, RequestScope)
         IN  IF r.outcome # "ok" THEN r
             ELSE Ok(Note(RequestCacheStore(r.st, scope.sid, st.ctx, binding_key, r.value),
                          r.value, st.ctx, FALSE),
                     r.value)

\* What get_instance does with the outcome r of provider_callable(): the
\* dependency is cached and, if there is a stack, registered for cleanup.
RequestKeep(r, sid, request_id, binding_key, cleanup) ==
    IF r.outcome # "ok"
    THEN r
    ELSE Ok(RegisterCleanup(Note(RequestCacheStore(r.st, sid, request_id, binding_key,
                                                   r.value),
                                 r.value, request_id, cleanup),
                            sid, request_id, r.value, cleanup),
            r.value)

\* get_instance from the lookup of binding_key in self.cache[request_id] on
RequestLookup(st, sid, request_id, binding_key, provider, cleanup) ==
    IF request_id \notin DOMAIN st.request_scopes[sid].cache
    THEN Raise(st, "KeyError")
    ELSE IF binding_key \in DOMAIN st.request_scopes[sid].cache[request_id]
    THEN Ok(st, st.request_scopes[sid].cache[request_id][binding_key])
    ELSE RequestKeep(ProviderCallable(st, binding_key, provider, RequestScope),
                     sid, request_id, binding_key, cleanup)

\* RequestScope.get_instance
RequestGetInstance(st, scope, binding_key, provider) ==
    IF st.ctx = NoRequest
    THEN Raise(st, "RequestScopeError")
    ELSE IF st.request_scopes[scope.sid].options.kind # "options"
    THEN Raise(st, "AttributeError")
    ELSE RequestLookup(IF st.request_scopes[scope.sid].options.enable_cleanup
                       THEN WithStack(st, scope.sid, st.ctx)
                       ELSE st,
                       scope.sid, st.ctx, binding_key, provider,
                       st.request_scopes[scope.sid].options.enable_cleanup)

RECURSIVE ExitAll(_, _)
\* AsyncExitStack.aclose(): the contexts entered are left, the last first.
ExitAll(st_objects, cms) ==
    IF cms = <<>>
    THEN st_objects
    ELSE LET obj == cms[Len(cms)]
         IN  ExitAll(IF obj \in DOMAIN st_objects
                     THEN [st_objects EXCEPT ![obj].exited = @ + 1]
                     ELSE st_objects,
                     SubSeq(cms, 1, Len(cms) - 1))

\* RequestScope.clear_key(key) on the request scope sid
ClearKey(st, sid, key) ==
    LET cache == st.request_scopes[sid].cache
    IN  IF key \notin DOMAIN cache
        THEN Raise(st, "KeyError")
        ELSE IF AsyncExitStack \in DOMAIN cache[key]
        THEN LET cms == cache[key][AsyncExitStack].cms
                 closed == [st EXCEPT !.objects = ExitAll(@, cms),
                                      !.request_scopes[sid].cache[key][AsyncExitStack].cms = <<>>]
             IN  IF \E i \in 1..Len(cms) : ExitRaises(cms[i][1])
                 THEN Raise(closed, "RuntimeError")
                 ELSE Ok([closed EXCEPT !.request_scopes[sid].cache =
                                           [r \in DOMAIN @ \ {key} |-> @[r]]],
                         NoneValue)
        ELSE Ok([st EXCEPT !.request_scopes[sid].cache = [r \in DOMAIN @ \ {key} |-> @[r]]],
                NoneValue)

\* binding.scope.get_instance(binding_key=key, provider_callable=..., injector_cache=...)
ScopeGetInstance(st, binding) ==
    CASE binding.scope.cls = TransientScope ->
            TransientGetInstance(st, binding.key, binding.provider)
      [] binding.scope.cls = SingletonScope ->
            SingletonGetInstance(st, binding.key, binding.provider)
      [] binding.scope.cls = RequestScope ->
            RequestGetInstance(st, binding.scope, binding.key, binding.provider)

\* An auto-binding that is registered with the Singleton scope.
AutoBindSingleton(st, key) ==
    LET b == Bind(st, key, key, None, NoneValue, SingletonScope)
    IN  IF b.outcome = "ok" THEN [b EXCEPT !.st.autobound = @ \cup {key}] ELSE b

\* The key of a bind that get made itself is noted as auto-bound.
AutoBound(b, key) ==
    IF b.outcome = "ok" THEN [b EXCEPT !.st.autobound = @ \cup {key}] ELSE b

\* self.bind(key, to_class=key, scope=TransientScope)
AutoBind(st, key) ==
    AutoBound(Bind(st, key, key, None, NoneValue, TransientScope), key)

\* binding = self._bindings.get(key), on the state st the auto-binding left,
\* and binding.scope.get_instance(...)
ResolveBound(st, key) ==
    IF key \notin DOMAIN st.bindings
    THEN Raise(st, "ResolutionError")
    ELSE ScopeGetInstance(st, st.bindings[key])

\* The try block of Injector.get after the auto-binding, whose outcome is b
ResolveAutoBound(b, key) ==
    IF b.outcome # "ok" THEN b ELSE ResolveBound(b.st, key)

\* The try block of Injector.get
Resolve(st, key) ==
    IF key \notin DOMAIN st.bindings /\ ~IsType(key)
    THEN Raise(st, "ResolutionError")
    ELSE ResolveAutoBound(IF key \notin DOMAIN st.bindings THEN AutoBind(st, key) ELSE Ok(st, NoneValue),
                          key)

\* A get that removes the key only after the try block returned.
ReleaseOnReturn(r, key) ==
    IF r.outcome = "ok" THEN [r EXCEPT !.st.currently_resolving = @ \ {key}] ELSE r

\* A finally block that takes the Singleton values a failed call made out
\* of the cache again.
ReleaseRollingBack(r, key) ==
    [r EXCEPT !.st.currently_resolving = @ \ {key},
              !.st.instances =
                  IF r.outcome = "ok"
                  THEN @
                  ELSE [k \in DOMAIN @ \ {r.st.trace[i].key : i \in 1..Len(r.st.trace)} |->
                           @[k]]]

\* The finally block of Injector.get: self._currently_resolving.remove(key)
Release(r, key) == [r EXCEPT !.st.currently_resolving = @ \ {key}]

\* An exception leaves get(key): it is noted with the key, the innermost get first.
Propagate(r, key) ==
    IF r.outcome = "ok"
    THEN r
    ELSE [r EXCEPT !.st.errors = Append(@, [key |-> key, outcome |-> r.outcome])]

\* A get that serves a cached Singleton value before it looks at the
\* resolution set.
GetCachedFirst(st, key) ==
    IF /\ key \in DOMAIN st.instances /\ key \in DOMAIN st.bindings
       /\ st.bindings[key].scope.cls = SingletonScope
    THEN Ok(st, st.instances[key])
    ELSE Propagate(IF key \in st.currently_resolving
                   THEN Raise(st, "CircularDependencyError")
                   ELSE Release(Resolve([st EXCEPT !.currently_resolving = @ \cup {key}],
                                        key),
                                key),
                   key)

\* Injector.get(key)
Get(st, key) ==
    Propagate(IF key \in st.currently_resolving
              THEN Raise(st, "CircularDependencyError")
              ELSE Release(Resolve([st EXCEPT !.currently_resolving = @ \cup {key}], key),
                           key),
              key)

---------------------------------------------------------------------------
(* The calls a client makes on one injector, one at a time.                *)

\* A call of bind: `supplied` names the target specifiers the caller wrote;
\* the others hold their default, None.
BindCall(key, to_class, to_factory, to_value, scope, supplied) ==
    [key |-> key, to_class |-> to_class, to_factory |-> to_factory,
     to_value |-> to_value, scope |-> scope, supplied |-> supplied]

NoCall == BindCall(None, None, None, NoneValue, None, {})

\* The tasks that call the injector, each in a context of its own.
Tasks == {"t1", "t2"}
MainTask == "t1"

\* The threads that call Injector.get on the one injector at the same time.
Threads == {"T1", "T2"}

\* A thread that has called nothing yet.  pc is the statement of Injector.get
\* or SingletonScope.get_instance the thread executes next; key, binding and
\* instance are the local variables of these functions, pending the value
\* of the return statement the finally block runs after, and miss tells that
\* the get found the key absent from the cache; outcome and result are what
\* the last completed get of the thread raised or returned, called its key,
\* and missed tells that it had found its key absent from the cache.
IdleThread ==
    [pc |-> "idle", key |-> None, binding |-> NoneValue, instance |-> NoneValue,
     miss |-> FALSE, pending |-> NoneValue,
     called |-> None, missed |-> FALSE, outcome |-> "none", result |-> NoneValue]

\* What the dicts of the request scopes hold.
RequestCached ==
    UNION {UNION {{request_scopes[sid].cache[r][k] : k \in DOMAIN request_scopes[sid].cache[r]} :
                    r \in DOMAIN request_scopes[sid].cache} :
             sid \in DOMAIN request_scopes}

\* The identities of the objects the injector or its client hold.
LiveIds ==
    UNION {IdsOf(instances[k]) : k \in DOMAIN instances} \cup IdsOf(last.value)
        \cup UNION {IdsOf(v) : v \in RequestCached}
        \cup UNION {IdsOf(served[e]) : e \in DOMAIN served}
        \cup IdsOf(middleware)
        \cup UNION {IdsOf(threads[t].instance) \cup IdsOf(threads[t].pending)
                        \cup IdsOf(threads[t].result) : t \in Threads}

\* The injector as a call made in `task` finds it.
InjectorIn(task) ==
    [bindings |-> bindings, instances |-> instances,
     currently_resolving |-> currently_resolving,
     scopes_instances |-> scopes_instances, used |-> LiveIds, trace |-> <<>>,
     autobound |-> {}, errors |-> <<>>,
     request_scopes |-> request_scopes, task |-> task, ctx |-> tasks[task].ctx,
     objects |-> [o \in DOMAIN objects \cap LiveIds |-> objects[o]]]

\* The injector as a call finds it.
Injector == InjectorIn(MainTask)

\* The executions in `trace` that the Singleton scope made.
SingletonRuns(trace) ==
    {i \in 1..Len(trace) : trace[i].scope = SingletonScope}

\* The request ids of the create_scope blocks that are open.
OpenRequests ==
    UNION {{tasks[t].open[i].rid : i \in 1..Len(tasks[t].open)} : t \in Tasks}

\* The injector after a call returned r.
Returned(r, op, key, call) ==
    /\ bindings' = r.st.bindings
    /\ instances' = r.st.instances
    /\ currently_resolving' = r.st.currently_resolving
    /\ scopes_instances' = r.st.scopes_instances
    /\ last' = [op |-> op, key |-> key, call |-> call, outcome |-> r.outcome,
                value |-> r.value, trace |-> r.st.trace, autobound |-> r.st.autobound,
                errors |-> r.st.errors, task |-> r.st.task, rid |-> r.st.ctx]
    /\ executed' = executed \cup {r.st.trace[i].key : i \in SingletonRuns(r.st.trace)}
    /\ succeeded' = succeeded \cup
          {r.st.trace[i].key : i \in {j \in SingletonRuns(r.st.trace) : r.st.trace[j].ok}}
    /\ request_scopes' = r.st.request_scopes
    /\ objects' = r.st.objects
    /\ served' = IF /\ op = "get" /\ r.outcome = "ok"
                    /\ r.st.ctx \in OpenRequests
                    /\ r.st.bindings[key].scope.cls = RequestScope
                    /\ <<r.st.ctx, key>> \notin DOMAIN served
                 THEN (<<r.st.ctx, key>> :> r.value) @@ served
                 ELSE served
    /\ UNCHANGED <<tasks, requests, cleared, threads>>

\* injector.bind(call.key, ...)
DoBind(call) ==
    /\ \E r \in {Bind(Injector, call.key, call.to_class, call.to_factory, call.to_value,
                        call.scope)} :
          Returned(r, "bind", call.key, call)
    /\ UNCHANGED <<middleware, app>>

\* injector.get(key) in the context of `task`
DoGetIn(task, key) ==
    /\ \E r \in {Get(InjectorIn(task), key)} : Returned(r, "get", key, NoCall)
    /\ UNCHANGED <<middleware, app>>

\* injector.get(key)
DoGet(key) == DoGetIn(MainTask, key)

\* InjectorMiddleware.__init__: self.request_scope_factory = injector.get(RequestScopeFactory)
DoMiddleware ==
    /\ middleware = NoneValue
    /\ \E r \in {Get(Injector, RequestScopeFactory)} :
          /\ Returned(r, "middleware", RequestScopeFactory, NoCall)
          /\ middleware' = r.value
    /\ UNCHANGED app

\* The next injector.bind of attach_injector, after the binds whose outcome is r.
BindNext(r, key, to_class, to_value) ==
    IF r.outcome # "ok" THEN r ELSE Bind(r.st, key, to_class, None, to_value, SingletonScope)

\* The three binds of attach_injector:
\*     injector.bind(RequestScopeOptions, to_value=options, scope=SingletonScope)
\*     injector.bind(RequestScopeFactory, to_class=RequestScopeFactory, scope=SingletonScope)
\*     injector.bind(RequestScope, to_class=RequestScope, scope=SingletonScope)
AttachBinds(st, options) ==
    TheOne({TheOne({BindNext(r2, RequestScope, RequestScope, NoneValue) :
                       r2 \in {BindNext(r1, RequestScopeFactory, RequestScopeFactory,
                                        NoneValue)}}) :
               r1 \in {Bind(st, RequestScopeOptions, None, None, options, SingletonScope)}})

\* attach_injector(app, injector, options)
DoAttach(options) ==
    /\ ~app.injector
    /\ app' = [injector |-> TRUE, options |-> options]
    /\ \E r \in {AttachBinds(Injector, options)} :
          Returned(r, "attach", None,
                   BindCall(RequestScopeOptions, None, None, options, SingletonScope,
                            {"to_value"}))
    /\ UNCHANGED middleware

\* What happened outside the injector: a create_scope block was entered or left.
SessionEvent(op, task, rid, outcome) ==
    [op |-> op, key |-> None, call |-> NoCall, outcome |-> outcome, value |-> NoneValue,
     trace |-> <<>>, autobound |-> {}, errors |-> <<>>, task |-> task, rid |-> rid]

\* RequestScopeFactory.create_scope up to its yield, on the factory whose
\* request_scope_instance is the request scope sid: a new request id is set
\* in the context of the task and added to the cache of that scope.
EnterScope(task, sid) ==
    /\ requests < MaxRequests
    /\ LET rid == requests + 1
       IN  /\ requests' = rid
           /\ tasks' = [tasks EXCEPT ![task] =
                          [ctx |-> rid,
                           open |-> Append(@.open, [rid |-> rid, sid |-> sid,
                                                    token |-> @.ctx])]]
           /\ request_scopes' = [request_scopes EXCEPT ![sid].cache = (rid :> <<>>) @@ @]
           /\ last' = SessionEvent("enter", task, rid, "ok")
    /\ UNCHANGED <<bindings, instances, currently_resolving, scopes_instances, executed,
                   succeeded, middleware, objects, served, cleared, app, threads>>

\* The finally block of create_scope: clear_key(rid), then the context
\* variable is reset; an exception of clear_key leaves it as it is.
ExitScope(task) ==
    /\ tasks[task].open # <<>>
    /\ \E session \in {tasks[task].open[Len(tasks[task].open)]} :
       \E r \in {ClearKey(InjectorIn(task), session.sid, session.rid)} :
           /\ request_scopes' = r.st.request_scopes
           /\ objects' = r.st.objects
           /\ tasks' = [tasks EXCEPT ![task] =
                          [ctx |-> IF r.outcome = "ok" THEN session.token ELSE @.ctx,
                           open |-> SubSeq(@.open, 1, Len(@.open) - 1)]]
           /\ served' = [e \in {d \in DOMAIN served : d[1] # session.rid} |-> served[e]]
           /\ cleared' = IF r.outcome = "ok" THEN cleared \cup {session.rid} ELSE cleared
           /\ last' = SessionEvent("exit", task, session.rid, r.outcome)
    /\ UNCHANGED <<bindings, instances, currently_resolving, scopes_instances, executed,
                   succeeded, middleware, requests, app, threads>>

\* Injector.__init__; no task is inside a create_scope block.
Init ==
    /\ bindings = <<>>
    /\ instances = <<>>
    /\ currently_resolving = {}
    /\ scopes_instances = <<>>
    /\ last = SessionEvent("init", MainTask, NoRequest, "ok")
    /\ executed = {}
    /\ succeeded = {}
    /\ request_scopes = <<>>
    /\ tasks = [t \in Tasks |-> [ctx |-> NoRequest, open |-> <<>>]]
    /\ requests = 0
    /\ middleware = NoneValue
    /\ objects = <<>>
    /\ served = <<>>
    /\ cleared = {}
    /\ app = [injector |-> FALSE, options |-> NoneValue]
    /\ threads = [t \in Threads |-> IdleThread]

---------------------------------------------------------------------------
(* Spec: scopes, auto-binding, rebinding and failing resolutions over      *)
(* ConcreteServiceA, ServiceInterface and ServiceWithDependency.           *)

\* bind(key) and bind(key, scope=...)
SelfBindCalls ==
    {BindCall(k, None, None, NoneValue, s, {}) :
        k \in {ConcreteServiceA, ServiceWithDependency}, s \in ScopeClasses}

\* bind(ServiceInterface, to_class=ConcreteServiceA, scope=...)
ClassBindCalls ==
    {BindCall(ServiceInterface, ConcreteServiceA, None, NoneValue, s, {"to_class"}) :
        s \in ScopeClasses}

\* bind(ConcreteServiceA, to_factory=from_a, scope=...), a self-cycle, and
\* bind(ServiceInterface, to_factory=from_dependent, scope=...), which closes
\* the cycle ServiceWithDependency -> ServiceInterface -> ServiceWithDependency
FactoryBindCalls ==
    {BindCall(ConcreteServiceA, None, from_a, NoneValue, s, {"to_factory"}) :
        s \in ScopeClasses}
    \cup {BindCall(ServiceInterface, None, from_dependent, NoneValue, s, {"to_factory"}) :
            s \in ScopeClasses}

\* bind(ConcreteServiceA, to_value=42, scope=...)
ValueBindCalls ==
    {BindCall(ConcreteServiceA, None, None, IntValue(42), s, {"to_value"}) :
        s \in ScopeClasses}

BindCalls == SelfBindCalls \cup ClassBindCalls \cup FactoryBindCalls \cup ValueBindCalls

GetKeys == {ConcreteServiceA, ServiceInterface, ServiceWithDependency, StrCircularB}

BindStep == \E call \in BindCalls : DoBind(call)
GetStep == \E key \in GetKeys : DoGet(key)

Next == BindStep \/ GetStep

Spec == Init /\ [][Next]_vars

---------------------------------------------------------------------------
(* SpecFailure: a class with two dependencies, of which the second can     *)
(* fail to resolve after the first was made.                               *)

\* bind(ConcreteServiceA, scope=...), bind(ServiceWithTwoDependencies, scope=...)
\* and bind(ServiceInterface, to_class=ConcreteServiceA, scope=...)
FailureBindCalls ==
    {BindCall(k, None, None, NoneValue, s, {}) :
        k \in {ConcreteServiceA, ServiceWithTwoDependencies}, s \in ScopeClasses}
    \cup ClassBindCalls

FailureGetKeys == {ConcreteServiceA, ServiceInterface, ServiceWithTwoDependencies}

FailureBindStep == \E call \in FailureBindCalls : DoBind(call)
FailureGetStep == \E key \in FailureGetKeys : DoGet(key)

NextFailure == FailureBindStep \/ FailureGetStep

SpecFailure == Init /\ [][NextFailure]_vars

---------------------------------------------------------------------------
(* SpecVariadic: constructors with variadic parameters, whose annotated    *)
(* types are bound or left to auto-binding.                                *)

\* bind(ConcreteServiceA, scope=...) and
\* bind(ServiceInterface, to_class=ConcreteServiceA, scope=...)
VariadicBindCalls ==
    {BindCall(ConcreteServiceA, None, None, NoneValue, s, {}) : s \in ScopeClasses}
    \cup ClassBindCalls

VariadicGetKeys == VariadicClasses \cup {ConcreteServiceA}

VariadicBindStep == \E call \in VariadicBindCalls : DoBind(call)
VariadicGetStep == \E key \in VariadicGetKeys : DoGet(key)

NextVariadic == VariadicBindStep \/ VariadicGetStep

SpecVariadic == Init /\ [][NextVariadic]_vars

---------------------------------------------------------------------------
(* SpecBind: every shape of a bind call, on a class and on a key that is   *)
(* no class.                                                               *)

\* to_value as the caller writes it: left out, None, 0 or 42
ToValueArgs ==
    {[supplied |-> FALSE, value |-> NoneValue], [supplied |-> TRUE, value |-> NoneValue],
     [supplied |-> TRUE, value |-> IntValue(0)], [supplied |-> TRUE, value |-> IntValue(42)]}

\* The target specifiers a call with these arguments wrote.
Supplied(to_class, to_factory, to_value_arg) ==
    (IF to_class # None THEN {"to_class"} ELSE {})
        \cup (IF to_factory # None THEN {"to_factory"} ELSE {})
        \cup (IF to_value_arg.supplied THEN {"to_value"} ELSE {})

\* bind(ConcreteServiceA, ...) with every combination of the specifiers
ClassKeyBindCalls ==
    {BindCall(ConcreteServiceA, c, f, v.value, s, Supplied(c, f, v)) :
        c \in {None, ConcreteServiceA}, f \in {None, from_a}, v \in ToValueArgs,
        s \in ScopeClasses}

\* bind('CircularB', ...) with to_class and to_value
StrKeyBindCalls ==
    {BindCall(StrCircularB, c, None, v.value, TransientScope, Supplied(c, None, v)) :
        c \in {None, ConcreteServiceA}, v \in ToValueArgs}

AllBindCalls == ClassKeyBindCalls \cup StrKeyBindCalls

BindGetKeys == {ConcreteServiceA, StrCircularB}

AnyBindStep == \E call \in AllBindCalls : DoBind(call)
BoundGetStep == \E key \in BindGetKeys : DoGet(key)

NextBind == AnyBindStep \/ BoundGetStep

SpecBind == Init /\ [][NextBind]_vars

---------------------------------------------------------------------------
(* SpecCircular: CircularA and CircularB of the test-suite, whose          *)
(* constructors name each other by forward reference.                      *)

\* bind(CircularA, scope=...) and bind(CircularB, scope=...)
CircularBindCalls ==
    {BindCall(k, None, None, NoneValue, s, {}) :
        k \in {CircularA, CircularB}, s \in ScopeClasses}

\* bind('CircularA', to_class=CircularA, scope=...) and the same for CircularB
ForwardBindCalls ==
    {BindCall(StrCircularA, CircularA, None, NoneValue, s, {"to_class"}) :
        s \in ScopeClasses}
    \cup {BindCall(StrCircularB, CircularB, None, NoneValue, s, {"to_class"}) :
            s \in ScopeClasses}

CircularGetKeys == {CircularA, CircularB, StrCircularA}

CircularBindStep == \E call \in CircularBindCalls \cup ForwardBindCalls : DoBind(call)
CircularGetStep == \E key \in CircularGetKeys : DoGet(key)

NextCircular == CircularBindStep \/ CircularGetStep

SpecCircular == Init /\ [][NextCircular]_vars

---------------------------------------------------------------------------
(* SpecParams: constructors whose parameters declare defaults, with and    *)
(* without annotation, over int and str.                                   *)

\* bind(int, to_value=99, scope=...) and bind(str, to_value="injected_name")
BuiltinBindCalls ==
    {BindCall(int, None, None, IntValue(99), s, {"to_value"}) : s \in ScopeClasses}
        \cup {BindCall(str, None, None, StrValue("injected_name"), TransientScope,
                       {"to_value"})}

\* bind(ServiceWithAnnotatedDefault) and the like, and
\* bind(ServiceWithAnnotatedDefault, scope=SingletonScope)
DefaultBindCalls ==
    {BindCall(k, None, None, NoneValue, TransientScope, {}) : k \in DefaultClasses}
        \cup {BindCall(ServiceWithAnnotatedDefault, None, None, NoneValue, SingletonScope, {})}

ParamGetKeys == DefaultClasses

ParamBindStep == \E call \in BuiltinBindCalls \cup DefaultBindCalls : DoBind(call)
ParamGetStep == \E key \in ParamGetKeys : DoGet(key)

NextParams == ParamBindStep \/ ParamGetStep

SpecParams == Init /\ [][NextParams]_vars

---------------------------------------------------------------------------
(* SpecRequest: keys bound with the request scope, resolved by two tasks   *)
(* inside and outside create_scope blocks.                                 *)

\* injector.bind(RequestScopeOptions, to_value=options, scope=SingletonScope)
OptionsBindCalls ==
    {BindCall(RequestScopeOptions, None, None, OptionsValue(b), SingletonScope, {"to_value"}) :
        b \in BOOLEAN}

\* bind(Resource, scope=RequestScope)
RequestKeys == {Resource}
RequestBindCalls ==
    {BindCall(k, None, None, NoneValue, RequestScope, {}) : k \in RequestKeys}

\* The request scopes a RequestScopeFactory at hand has as its
\* request_scope_instance: the one of the middleware, obtained by get, and
\* the one of a RequestScopeFactory made on the injector's scope instance.
FactoryScopes ==
    (IF middleware # NoneValue
     THEN {middleware.fields["request_scope_instance"].sid} ELSE {})
        \cup (IF RequestScope \in DOMAIN scopes_instances
              THEN {scopes_instances[RequestScope].sid} ELSE {})

RequestBindStep == \E call \in OptionsBindCalls \cup RequestBindCalls : DoBind(call)
MiddlewareStep == DoMiddleware
EnterStep == \E task \in Tasks : \E sid \in FactoryScopes : EnterScope(task, sid)
ExitStep == \E task \in Tasks : ExitScope(task)
RequestGetStep == \E task \in Tasks : \E key \in RequestKeys : DoGetIn(task, key)

NextRequest ==
    RequestBindStep \/ MiddlewareStep \/ EnterStep \/ ExitStep \/ RequestGetStep

SpecRequest == Init /\ [][NextRequest]_vars

---------------------------------------------------------------------------
(* SpecAttach: an application that attaches the injector, binds a key with *)
(* the request scope before or after, adds the middleware, and serves      *)
(* requests in the create_scope blocks of the middleware's factory.        *)

AttachStep == \E b \in BOOLEAN : DoAttach(OptionsValue(b))
AttachBindStep == \E call \in RequestBindCalls : DoBind(call)
AttachMiddlewareStep == app.injector /\ DoMiddleware
\* InjectorMiddleware.__call__: async with self.request_scope_factory.create_scope()
AttachEnterStep ==
    /\ middleware # NoneValue
    /\ \E task \in Tasks :
          EnterScope(task, middleware.fields["request_scope_instance"].sid)
AttachExitStep == \E task \in Tasks : ExitScope(task)
AttachGetStep == \E task \in Tasks : \E key \in RequestKeys : DoGetIn(task, key)

NextAttach ==
    \/ AttachStep \/ AttachBindStep \/ AttachMiddlewareStep
    \/ AttachEnterStep \/ AttachExitStep \/ AttachGetStep

SpecAttach == Init /\ [][NextAttach]_vars

---------------------------------------------------------------------------
(* SpecThreads: two threads call Injector.get on one injector.  A thread   *)
(* can be preempted between any two statements of Injector.get and of      *)
(* SingletonScope.get_instance, so each statement that reads or writes a   *)
(* field of the injector is a step of its own.  The keys are classes whose *)
(* constructors take no dependencies: their providers make no nested get.  *)

ThreadKeys == {ConcreteServiceA}

\* bind(ConcreteServiceA, scope=SingletonScope) and bind(ConcreteServiceA, scope=TransientScope)
ThreadBindCalls ==
    {BindCall(k, None, None, NoneValue, s, {}) : k \in ThreadKeys, s \in ScopeClasses}

\* The thread t goes on as `next`; nothing outside the injector changes.
Goes(t, next) ==
    /\ threads' = [threads EXCEPT ![t] = next]
    /\ UNCHANGED <<last, request_scopes, tasks, requests, middleware, objects, served,
                   cleared, app>>

\* The thread t calls injector.get(key).
ThreadCall(t, key) ==
    /\ threads[t].pc = "idle"
    /\ Goes(t, [threads[t] EXCEPT !.pc = "check", !.key = key])
    /\ UNCHANGED <<bindings, instances, currently_resolving, scopes_instances, executed,
                   succeeded>>

\* A check that looks only for the keys the calling thread itself is
\* resolving: none, at the start of a get that is not nested.
ThreadCheckOwn(t) ==
    /\ threads[t].pc = "check"
    /\ Goes(t, [threads[t] EXCEPT !.pc = "add"])
    /\ UNCHANGED <<bindings, instances, currently_resolving, scopes_instances, executed,
                   succeeded>>

\* if key in self._currently_resolving: raise CircularDependencyError(...)
ThreadCheck(t) ==
    /\ threads[t].pc = "check"
    /\ Goes(t, IF threads[t].key \in currently_resolving
               THEN [IdleThread EXCEPT !.called = threads[t].key,
                                       !.outcome = "CircularDependencyError"]
               ELSE [threads[t] EXCEPT !.pc = "add"])
    /\ UNCHANGED <<bindings, instances, currently_resolving, scopes_instances, executed,
                   succeeded>>

\* self._currently_resolving.add(key)
ThreadAdd(t) ==
    /\ threads[t].pc = "add"
    /\ currently_resolving' = currently_resolving \cup {threads[t].key}
    /\ Goes(t, [threads[t] EXCEPT !.pc = "lookup"])
    /\ UNCHANGED <<bindings, instances, scopes_instances, executed, succeeded>>

\* The injector after the auto-binding b, and the binding the thread t holds.
Looked(t, b) ==
    /\ bindings' = b.st.bindings
    /\ scopes_instances' = b.st.scopes_instances
    /\ Goes(t, [threads[t] EXCEPT !.pc = "scope", !.binding = b.st.bindings[threads[t].key]])
    /\ UNCHANGED <<instances, currently_resolving, executed, succeeded>>

\* binding = self._bindings.get(key), after the auto-binding of a class that
\* has no binding
ThreadLookup(t) ==
    /\ threads[t].pc = "lookup"
    /\ \E b \in {IF threads[t].key \in DOMAIN bindings
                  THEN Ok(Injector, NoneValue)
                  ELSE AutoBind(Injector, threads[t].key)} : Looked(t, b)

\* binding.scope.get_instance(...) up to the call of the provider:
\* TransientScope calls it at once, SingletonScope if the key is not in the cache.
ThreadScope(t) ==
    /\ threads[t].pc = "scope"
    /\ Goes(t, IF threads[t].binding.scope.cls = TransientScope
               THEN [threads[t] EXCEPT !.pc = "provide"]
               ELSE IF threads[t].key \notin DOMAIN instances
               THEN [threads[t] EXCEPT !.pc = "provide", !.miss = TRUE]
               ELSE [threads[t] EXCEPT !.pc = "return"])
    /\ UNCHANGED <<bindings, instances, currently_resolving, scopes_instances, executed,
                   succeeded>>

\* The thread t holds what provider_callable() made, whose outcome is r.
Provided(t, r) ==
    /\ Goes(t, IF threads[t].binding.scope.cls = TransientScope
               THEN [threads[t] EXCEPT !.pc = "release", !.pending = r.value]
               ELSE [threads[t] EXCEPT !.pc = "store", !.instance = r.value])
    /\ executed' = executed \cup {r.st.trace[i].key : i \in SingletonRuns(r.st.trace)}
    /\ succeeded' = succeeded \cup {r.st.trace[i].key : i \in SingletonRuns(r.st.trace)}
    /\ UNCHANGED <<bindings, instances, currently_resolving, scopes_instances>>

\* A Singleton scope that looks into the cache again before it calls the
\* provider and takes what another thread has stored meanwhile.
ThreadProvideRechecking(t) ==
    /\ threads[t].pc = "provide"
    /\ IF /\ threads[t].binding.scope.cls = SingletonScope
          /\ threads[t].key \in DOMAIN instances
       THEN /\ Goes(t, [threads[t] EXCEPT !.pc = "return",
                                          !.instance = instances[threads[t].key]])
            /\ UNCHANGED <<bindings, instances, currently_resolving, scopes_instances,
                           executed, succeeded>>
       ELSE \E r \in {ProviderCallable(Injector, threads[t].key,
                                        threads[t].binding.provider,
                                        threads[t].binding.scope.cls)} : Provided(t, r)

\* instance = provider_callable() in SingletonScope.get_instance,
\* return provider_callable() in TransientScope.get_instance
ThreadProvide(t) ==
    /\ threads[t].pc = "provide"
    /\ \E r \in {ProviderCallable(Injector, threads[t].key, threads[t].binding.provider,
                                   threads[t].binding.scope.cls)} : Provided(t, r)

\* injector_cache[binding_key] = instance
ThreadStore(t) ==
    /\ threads[t].pc = "store"
    /\ instances' = (threads[t].key :> threads[t].instance) @@ instances
    /\ Goes(t, [threads[t] EXCEPT !.pc = "return"])
    /\ UNCHANGED <<bindings, currently_resolving, scopes_instances, executed, succeeded>>

\* return injector_cache[binding_key]
ThreadReturn(t) ==
    /\ threads[t].pc = "return"
    /\ Goes(t, [threads[t] EXCEPT !.pc = "release", !.pending = instances[threads[t].key]])
    /\ UNCHANGED <<bindings, instances, currently_resolving, scopes_instances, executed,
                   succeeded>>

\* finally: self._currently_resolving.remove(key), which raises KeyError
\* instead of returning when the key is not in the set; the locals end.
ThreadRelease(t) ==
    /\ threads[t].pc = "release"
    /\ currently_resolving' = currently_resolving \ {threads[t].key}
    /\ Goes(t, IF threads[t].key \in currently_resolving
               THEN [IdleThread EXCEPT !.called = threads[t].key, !.missed = threads[t].miss,
                                       !.outcome = "ok", !.result = threads[t].pending]
               ELSE [IdleThread EXCEPT !.called = threads[t].key, !.missed = threads[t].miss,
                                       !.outcome = "KeyError"])
    /\ UNCHANGED <<bindings, instances, scopes_instances, executed, succeeded>>

ThreadBindStep == \E call \in ThreadBindCalls : DoBind(call)
ThreadCallStep == \E t \in Threads : \E key \in ThreadKeys : ThreadCall(t, key)
ThreadCheckStep == \E t \in Threads : ThreadCheck(t)
ThreadAddStep == \E t \in Threads : ThreadAdd(t)
ThreadLookupStep == \E t \in Threads : ThreadLookup(t)
ThreadScopeStep == \E t \in Threads : ThreadScope(t)
ThreadProvideStep == \E t \in Threads : ThreadProvide(t)
ThreadStoreStep == \E t \in Threads : ThreadStore(t)
ThreadReturnStep == \E t \in Threads : ThreadReturn(t)
ThreadReleaseStep == \E t \in Threads : ThreadRelease(t)

NextThreads ==
    \/ ThreadBindStep \/ ThreadCallStep \/ ThreadCheckStep \/ ThreadAddStep
    \/ ThreadLookupStep \/ ThreadScopeStep \/ ThreadProvideStep \/ ThreadStoreStep
    \/ ThreadReturnStep \/ ThreadReleaseStep

SpecThreads == Init /\ [][NextThreads]_vars

---------------------------------------------------------------------------
(* SpecCleanup: one task, request-scoped context managers of which one     *)
(* raises in __exit__.                                                     *)

CleanupKeys == ContextManagers
\* bind(Resource, scope=RequestScope) and bind(FailingResource, scope=RequestScope)
CleanupBindCalls ==
    {BindCall(k, None, None, NoneValue, RequestScope, {}) : k \in CleanupKeys}

CleanupBindStep == \E call \in OptionsBindCalls \cup CleanupBindCalls : DoBind(call)
CleanupEnterStep == \E sid \in FactoryScopes : EnterScope(MainTask, sid)
CleanupExitStep == ExitScope(MainTask)
CleanupGetStep == \E key \in CleanupKeys : DoGetIn(MainTask, key)

NextCleanup ==
    CleanupBindStep \/ MiddlewareStep \/ CleanupEnterStep \/ CleanupExitStep \/ CleanupGetStep

SpecCleanup == Init /\ [][NextCleanup]_vars

---------------------------------------------------------------------------
(* SpecScope: binds that construct the scope instance of RequestScope,     *)
(* whose constructor resolves RequestScopeOptions.                         *)

\* bind(RequestScopeOptions, to_class=CircularA) and
\* bind(RequestScopeOptions, to_class=ServiceInterface): bindings that make
\* get(RequestScopeOptions) raise ResolutionError and TypeError.
FailingOptionsBindCalls ==
    {BindCall(RequestScopeOptions, c, None, NoneValue, TransientScope, {"to_class"}) :
        c \in {CircularA, ServiceInterface}}

\* bind(k, scope=RequestScope) and bind(k, scope=SingletonScope)
ScopedBindCalls ==
    {BindCall(k, None, None, NoneValue, sc, {}) :
        k \in {Resource, ConcreteServiceA}, sc \in {RequestScope, SingletonScope}}

ScopeGetKeys == {Resource, ConcreteServiceA, RequestScopeOptions}

ScopeBindStep ==
    \E call \in FailingOptionsBindCalls \cup OptionsBindCalls \cup ScopedBindCalls : DoBind(call)
ScopeGetStep == \E key \in ScopeGetKeys : DoGet(key)

NextScope == ScopeBindStep \/ ScopeGetStep

SpecScope == Init /\ [][NextScope]_vars

---------------------------------------------------------------------------
(* Properties.                                                             *)

\* v and w are the same object.
SameObject(v, w) ==
    IF v.kind = "instance" /\ w.kind = "instance"
    THEN v.cls = w.cls /\ v.id = w.id
    ELSE v = w

\* The executions of the provider of `key` in `trace`.
KeyRuns(trace, key) == {i \in 1..Len(trace) : trace[i].key = key}

IsGet(call) == call.op = "get"
IsBind(call) == call.op = "bind"
BoundWith(key, scope_class) ==
    key \in DOMAIN bindings /\ bindings[key].scope.cls = scope_class

\* C1: two sequential successful get(key) calls on a key bound with Singleton
\* scope return the identical instance, and the second does not execute the
\* provider of key.
C1_SingletonGetsIdentical ==
    [][(/\ IsGet(last) /\ last.outcome = "ok"
        /\ IsGet(last') /\ last'.outcome = "ok" /\ last'.key = last.key
        /\ BoundWith(last.key, SingletonScope))
       => /\ SameObject(last'.value, last.value)
          /\ KeyRuns(last'.trace, last.key) = {}]_vars

\* C1 witness: a get of a Singleton key, whose provider returned an instance
\* on an earlier get, is served without any provider execution.
C1_Witness ==
    /\ IsGet(last) /\ last.outcome = "ok" /\ last.trace = <<>>
    /\ BoundWith(last.key, SingletonScope)
    /\ last.key \in succeeded
    /\ last.value.kind = "instance"

\* C2: a get of a key bound with Transient scope to a class or a factory
\* executes the provider of the key exactly once, leaves the injector's cache
\* as it was but for what Singleton providers returned during the call, and
\* returns an instance distinct from the one the previous get of the key
\* returned.
C2_TransientGetsFresh ==
    [][(/\ IsGet(last')
        /\ BoundWith(last'.key, TransientScope)
        /\ bindings[last'.key].provider.kind \in {"ClassProvider", "FactoryProvider"})
       => /\ Cardinality(KeyRuns(last'.trace, last'.key)) = 1
          /\ \A k \in DOMAIN instances : k \in DOMAIN instances' /\ instances'[k] = instances[k]
          /\ \A k \in DOMAIN instances' \ DOMAIN instances :
                /\ k # last'.key
                /\ \E i \in SingletonRuns(last'.trace) :
                      last'.trace[i].key = k /\ last'.trace[i].ok
          /\ (IsGet(last) /\ last.key = last'.key /\ last.outcome = "ok"
                /\ last'.outcome = "ok")
             => ~SameObject(last'.value, last.value)]_vars

\* C2 witness: a get of a Transient class or factory key returned a second
\* instance while the first one is still alive.
C2_Witness ==
    /\ IsGet(last) /\ last.outcome = "ok"
    /\ BoundWith(last.key, TransientScope)
    /\ bindings[last.key].provider.kind \in {"ClassProvider", "FactoryProvider"}
    /\ last.value.kind = "instance" /\ last.value.id = 2
    /\ last.key \notin DOMAIN instances

\* C3 as stated: the Singleton scope executes the provider of a key at most
\* once over the injector's lifetime, whether the execution returns or raises.
C3_Original ==
    [][\A i \in SingletonRuns(last'.trace) :
          /\ last'.trace[i].key \notin executed
          /\ \A j \in SingletonRuns(last'.trace) :
                last'.trace[j].key = last'.trace[i].key => j = i]_vars

\* C3 amended: the Singleton scope's executions of the provider of a key
\* return at most once over the injector's lifetime; an execution that
\* raises stores nothing and may be repeated.
C3_SingletonProviderReturnsOnce ==
    [][\A i \in SingletonRuns(last'.trace) :
          last'.trace[i].ok
          => /\ last'.trace[i].key \notin succeeded
             /\ \A j \in SingletonRuns(last'.trace) :
                   (last'.trace[j].key = last'.trace[i].key /\ last'.trace[j].ok)
                   => j = i]_vars

\* C3 witness: the provider of one Singleton key has returned, and a get has
\* just executed the provider of another Singleton key, which raised.
C3_Witness ==
    /\ IsGet(last) /\ last.outcome # "ok"
    /\ succeeded # {}
    /\ \E i \in SingletonRuns(last.trace) :
          ~last.trace[i].ok /\ last.trace[i].key \notin succeeded

\* C5: after every top-level get, returned or raised, the in-flight
\* resolution set is empty.
C5_ResolutionSetDrained == currently_resolving = {}

\* C5 witness: a top-level get raised CircularDependencyError from a nested
\* get, while the provider of its key was executing.
C5_Witness ==
    /\ IsGet(last) /\ last.outcome = "CircularDependencyError"
    /\ KeyRuns(last.trace, last.key) # {}

\* C8: get of a key without a binding that cannot be constructed, a key that
\* is no class or an abstract class, raises ResolutionError.
C8_UnconstructibleRaisesResolutionError ==
    [][(/\ IsGet(last')
        /\ last'.key \notin DOMAIN bindings
        /\ (~IsType(last'.key) \/ IsAbstract(last'.key)))
       => last'.outcome = "ResolutionError"]_vars

ServedBy(provider, value) ==
    CASE provider.kind = "ValueProvider" -> value = provider.value
      [] provider.kind = "ClassProvider" ->
            value.kind = "instance" /\ value.cls = provider.cls
      [] provider.kind = "FactoryProvider" ->
            value.kind = "instance" /\ value.cls = provider.factory

\* C10: a successful get(key) is served by the provider of the most recent
\* bind for key, also when key was resolved before that bind.
C10_LastBindWins ==
    (IsGet(last) /\ last.outcome = "ok" /\ last.key \in DOMAIN bindings)
    => ServedBy(bindings[last.key].provider, last.value)

\* The class a constructor or factory annotation stands for: a forward
\* reference names the class of that name.
Denotes(annotation) ==
    CASE annotation = StrCircularA -> CircularA
      [] annotation = StrCircularB -> CircularB
      [] OTHER -> annotation

\* The parameters injection fills for a provider.
InjectedParams(provider) ==
    CASE provider.kind = "ClassProvider" ->
            IF HasObjectInit(provider.cls) THEN <<>> ELSE Tail(InitParams(provider.cls))
      [] provider.kind = "FactoryProvider" -> FactoryParams(provider.factory)
      [] OTHER -> <<>>

\* The classes that what `key` is bound to (itself, when a class without a
\* binding) declares as its dependencies.
DependsOn(key) ==
    LET params == IF key \in DOMAIN bindings THEN InjectedParams(bindings[key].provider)
                  ELSE IF IsType(key) THEN InjectedParams(ClassProvider(key))
                  ELSE <<>>
    IN  {Denotes(params[i].annotation) :
            i \in {j \in 1..Len(params) : params[j].annotation # EMPTY}}

RECURSIVE ReachableIn(_, _)
\* The keys reached from `keys` along at most n dependencies.
ReachableIn(keys, n) ==
    IF n = 0 THEN keys
    ELSE ReachableIn(keys \cup UNION {DependsOn(k) : k \in keys}, n - 1)

\* `key` lies on a dependency cycle.
OnCycle(key) == key \in ReachableIn(DependsOn(key), Cardinality(Keys))

\* C4: get of a class that lies on a dependency cycle raises
\* CircularDependencyError, whatever the scopes of the keys of the cycle.
C4_CycleRaisesCircularDependencyError ==
    (IsGet(last) /\ IsType(last.key) /\ OnCycle(last.key))
    => last.outcome = "CircularDependencyError"

\* C6: a bind call that writes two or more of to_class, to_factory and
\* to_value raises BindingError and registers nothing.
C6_TwoSpecifiersRaiseBindingError ==
    [][(IsBind(last') /\ Cardinality(last'.call.supplied) >= 2)
       => (last'.outcome = "BindingError" /\ bindings' = bindings)]_vars

\* C7: bind(key, to_value=v) registers a Value provider for v, whatever v is,
\* and the next get(key) returns v.
C7_ValueBindRegistersValue ==
    [][/\ (IsBind(last') /\ last'.call.supplied = {"to_value"})
          => /\ last'.outcome = "ok"
             /\ last'.key \in DOMAIN bindings'
             /\ bindings'[last'.key].provider = ValueProvider(last'.call.to_value)
       /\ (/\ IsBind(last) /\ last.call.supplied = {"to_value"}
           /\ IsGet(last') /\ last'.key = last.key /\ IsType(last.key)
           /\ last.key \notin DOMAIN instances)
          => (last'.outcome = "ok" /\ last'.value = last.call.to_value)]_vars

\* The last call was a get that constructed an instance of a class for its key.
Constructed ==
    /\ IsGet(last) /\ last.outcome = "ok" /\ last.value.kind = "instance"
    /\ last.value.cls \in Classes
    /\ KeyRuns(last.trace, last.key) # {}

\* The parameters injection looks at in the constructor of cls.
ConstructorParams(cls) ==
    LET params == Tail(InitParams(cls)) IN {params[i] : i \in 1..Len(params)}

\* The type of p had a binding when the last call began.
WasBound(p) == p.annotation \in DOMAIN bindings /\ p.annotation \notin last.autobound

\* C11: a constructor parameter with an annotation and a default, whose type
\* has a binding, receives what the injector yields for the type and not its
\* default.
C11_AnnotatedDefaultIsInjected ==
    Constructed =>
        \A p \in ConstructorParams(last.value.cls) :
            (p.annotation # EMPTY /\ p.has_default /\ WasBound(p))
            => /\ last.value.fields[p.name] # DefaultOf(p.name)
               /\ last.value.fields[p.name] = Get(Injector, p.annotation).value

\* C12: a constructor parameter without annotation that declares a default
\* receives its default, whatever parameters stand before or after it.
C12_UnannotatedDefaultKeepsDefault ==
    Constructed =>
        \A p \in ConstructorParams(last.value.cls) :
            (p.annotation = EMPTY /\ p.has_default)
            => last.value.fields[p.name] = DefaultOf(p.name)

\* The value v is what a get yielding d yields: the same value, or an instance
\* of the same class.
Yields(v, d) ==
    IF v.kind = "instance" THEN d.kind = "instance" /\ d.cls = v.cls ELSE v = d

\* C13: a dependent that was constructed by the last get holds, for each
\* annotated parameter, what a direct get of the annotation yields on the same
\* injector: the identical instance when the annotation is bound with
\* Singleton scope.
C13_DependenciesThroughSameInjector ==
    (/\ IsGet(last) /\ last.outcome = "ok" /\ last.value.kind = "instance"
     /\ KeyRuns(last.trace, last.key) # {})
    => LET params == InjectedParams(bindings[last.key].provider)
       IN  \A i \in 1..Len(params) :
              params[i].annotation # EMPTY
              => LET direct == Get(Injector, params[i].annotation)
                     held == last.value.fields[params[i].name]
                 IN  /\ direct.outcome = "ok"
                     /\ Yields(held, direct.value)
                     /\ BoundWith(params[i].annotation, SingletonScope)
                        => SameObject(held, direct.value)

\* C13 witness: a dependent made by a factory or a constructor holds the
\* cached instance of its Singleton dependency.
C13_Witness ==
    /\ IsGet(last) /\ last.outcome = "ok" /\ last.value.kind = "instance"
    /\ KeyRuns(last.trace, last.key) # {}
    /\ \E n \in DOMAIN last.value.fields :
          \E k \in DOMAIN instances :
             /\ BoundWith(k, SingletonScope)
             /\ instances[k].kind = "instance"
             /\ SameObject(last.value.fields[n], instances[k])
             /\ KeyRuns(last.trace, k) = {}

\* C14: the error a get raises is the error of the innermost get that failed:
\* every get on the way out raises the same kind.
C14_ErrorsSurfaceUnchanged ==
    IsGet(last)
    => /\ last.outcome = "ok" => last.errors = <<>>
       /\ last.outcome # "ok"
          => /\ last.errors # <<>>
             /\ last.errors[Len(last.errors)].key = last.key
             /\ \A i \in 1..Len(last.errors) : last.errors[i].outcome = last.outcome

\* C14 witness: the ResolutionError of a leaf two levels down is what the get
\* of the root raised.
C14_Witness ==
    /\ IsGet(last) /\ last.outcome = "ResolutionError"
    /\ Len(last.errors) >= 3

\* C20: every binding references the scope instance the injector holds for
\* the binding's scope class, and that instance, once made, is never replaced.
C20_OneScopeInstancePerClass ==
    [][/\ \A k \in DOMAIN bindings' :
             /\ bindings'[k].scope.cls \in DOMAIN scopes_instances'
             /\ bindings'[k].scope = scopes_instances'[bindings'[k].scope.cls]
       /\ \A c \in DOMAIN scopes_instances :
             c \in DOMAIN scopes_instances' /\ scopes_instances'[c] = scopes_instances[c]
       /\ \A c \in DOMAIN scopes_instances' \ DOMAIN scopes_instances :
             \/ IsBind(last') /\ last'.call.scope = c
             \/ IsGet(last') /\ c = TransientScope /\ last'.autobound # {}]_vars

\* C20 witness: two keys are bound with the same scope class, one of them by
\* an auto-binding.
C20_Witness ==
    \E k1, k2 \in DOMAIN bindings :
        /\ k1 # k2
        /\ bindings[k1].scope.cls = bindings[k2].scope.cls
        /\ k1 \in last.autobound
        /\ IsGet(last)

IsExit(call) == call.op = "exit"

\* C15: a bind that does not come to hold an instance of its scope class
\* raises BindingError.
C15_ScopeFailureRaisesBindingError ==
    [][(IsBind(last') /\ last'.call.scope \notin DOMAIN scopes_instances')
       => last'.outcome = "BindingError"]_vars

\* C16: inside an open request session, a get of a request-scoped key that a
\* get of the session has returned before returns the identical instance and
\* does not execute the provider of the key.
C16_RequestGetsIdentical ==
    [][(/\ IsGet(last')
        /\ last'.key \in DOMAIN bindings' /\ bindings'[last'.key].scope.cls = RequestScope
        /\ <<last'.rid, last'.key>> \in DOMAIN served)
       => /\ last'.outcome = "ok"
          /\ SameObject(last'.value, served[<<last'.rid, last'.key>>])
          /\ KeyRuns(last'.trace, last'.key) = {}]_vars

\* C16 witness: the second get of a key in a session that is still open.
C16_Witness ==
    /\ IsGet(last) /\ last.outcome = "ok" /\ last.trace = <<>>
    /\ last.rid \in OpenRequests
    /\ <<last.rid, last.key>> \in DOMAIN served
    /\ SameObject(last.value, served[<<last.rid, last.key>>])

\* C17: an instance a get of a request-scoped key returns was made in the
\* session the get is made in, and that session has not been cleared.
C17_SessionsIsolated ==
    (/\ IsGet(last) /\ last.outcome = "ok" /\ BoundWith(last.key, RequestScope)
     /\ last.value.kind = "instance")
    => LET obj == <<last.value.cls, last.value.id>>
       IN  /\ obj \in DOMAIN objects
           /\ objects[obj].rid = last.rid
           /\ last.rid \notin cleared

\* C17 witness: two sessions are open in two tasks, both have an instance of
\* the key, and the get of one task returned its own.
C17_Witness ==
    /\ IsGet(last) /\ last.outcome = "ok" /\ BoundWith(last.key, RequestScope)
    /\ last.trace = <<>>
    /\ \E t \in Tasks \ {last.task} :
          /\ tasks[t].ctx \in OpenRequests \ {last.rid}
          /\ <<tasks[t].ctx, last.key>> \in DOMAIN served

\* C18: a context manager the request scope made with cleanup enabled was
\* entered once, and has been exited once when its session exits; without
\* cleanup it is neither entered nor exited.
C18_CleanupOnExit ==
    [][/\ \A obj \in DOMAIN objects' :
             IsContextManager(obj[1])
             => IF objects'[obj].cleanup
                THEN objects'[obj].entered = 1 /\ objects'[obj].exited <= 1
                ELSE objects'[obj].entered = 0 /\ objects'[obj].exited = 0
       /\ IsExit(last')
          => \A obj \in DOMAIN objects' :
                (/\ IsContextManager(obj[1]) /\ objects'[obj].cleanup
                 /\ objects'[obj].rid = last'.rid)
                => objects'[obj].exited = 1]_vars

\* C19: a get of a request-scoped key made by a task that is in no
\* create_scope block raises RequestScopeError and executes no provider.
C19_NoSessionRaises ==
    (/\ IsGet(last) /\ BoundWith(last.key, RequestScope)
     /\ tasks[last.task].open = <<>>)
    => last.outcome = "RequestScopeError" /\ last.trace = <<>>

\* C21: in every injector state, a get of a key that is in the resolution
\* set raises CircularDependencyError and leaves the bindings, the cache and
\* the resolution set as they were, without executing a provider, whether or
\* not the cache holds a value for the key.
C21_ReentrantGetRaises ==
    \A key \in Keys :
        LET st == [Injector EXCEPT !.currently_resolving = @ \cup {key}]
            r == Get(st, key)
        IN  /\ r.outcome = "CircularDependencyError"
            /\ r.value = NoneValue
            /\ r.st.trace = <<>>
            /\ r.st.bindings = bindings
            /\ r.st.instances = instances
            /\ r.st.currently_resolving = st.currently_resolving

\* C21 witness: a get met its own key in the resolution set while the cache
\* held a Singleton value for that key, and raised.
C21_Witness ==
    /\ IsGet(last) /\ last.outcome = "CircularDependencyError"
    /\ last.errors # <<>>
    /\ last.errors[1] = [key |-> last.key, outcome |-> "CircularDependencyError"]
    /\ last.key \in DOMAIN instances
    /\ last.key \in succeeded

\* C22: a get that fails leaves every cached value as it was, stores no value
\* for its key, and keeps the values the Singleton scope stored during the
\* call; a later get of a key bound with Singleton returns what the cache held.
C22_FailedGetKeepsCache ==
    [][/\ (IsGet(last') /\ last'.outcome # "ok")
          => /\ \A k \in DOMAIN instances :
                   k \in DOMAIN instances' /\ instances'[k] = instances[k]
             /\ last'.key \notin DOMAIN instances' \ DOMAIN instances
             /\ \A i \in SingletonRuns(last'.trace) :
                   last'.trace[i].ok => last'.trace[i].key \in DOMAIN instances'
       /\ (/\ IsGet(last') /\ last'.outcome = "ok"
           /\ last'.key \in DOMAIN instances
           /\ bindings'[last'.key].scope.cls = SingletonScope)
          => last'.value = instances[last'.key]]_vars

\* C22 witness: a get failed after the Singleton scope had stored a value
\* for one of its dependencies in the same call.
C22_Witness ==
    /\ IsGet(last) /\ last.outcome # "ok"
    /\ \E i \in SingletonRuns(last.trace) :
          /\ last.trace[i].ok
          /\ last.trace[i].key # last.key
          /\ last.trace[i].key \in DOMAIN instances

\* C23: a get of a class whose constructor has only variadic parameters
\* succeeds, executes no provider but the one of the class, binds no other
\* key and changes the cache at no other key.
C23_VariadicsAreSkipped ==
    [][(IsGet(last') /\ last'.key \in VariadicClasses)
       => /\ last'.outcome = "ok"
          /\ last'.value.kind = "instance" /\ last'.value.fields = <<>>
          /\ \A i \in 1..Len(last'.trace) : last'.trace[i].key = last'.key
          /\ DOMAIN bindings' \subseteq DOMAIN bindings \cup {last'.key}
          /\ \A k \in DOMAIN instances' \ {last'.key} :
                k \in DOMAIN instances /\ instances'[k] = instances[k]]_vars

\* What calling the type with no arguments returns: int() and str().
ZeroOf(type) == IF type = int THEN IntValue(0) ELSE StrValue("")

\* C24: a constructor parameter with an annotation and a default, whose type
\* int or str had no binding when the get began, has the type bound with
\* Transient scope afterwards and holds int() or str(), not its default.
C24_UnboundAnnotatedDefaultGetsZero ==
    Constructed =>
        \A p \in ConstructorParams(last.value.cls) :
            (/\ p.annotation \in {int, str} /\ p.has_default
             /\ p.annotation \in last.autobound)
            => /\ bindings[p.annotation].scope.cls = TransientScope
               /\ last.value.fields[p.name] = ZeroOf(p.annotation)

\* C30: in every instance a get constructs, a parameter with an annotation
\* holds what the injector yields for the annotation and a parameter without
\* one holds its default.
C30_ValuesReachTheirParameters ==
    Constructed =>
        \A p \in ConstructorParams(last.value.cls) :
            IF p.annotation # EMPTY
            THEN Yields(last.value.fields[p.name], Get(Injector, p.annotation).value)
            ELSE last.value.fields[p.name] = DefaultOf(p.name)

\* C27: when a create_scope block is left, whatever its outcome, no request
\* scope holds a cache entry for the session's request id any more and the
\* context of the task holds the request id it held before the block.
C27_ExitAlwaysClears ==
    [][IsExit(last')
       => LET open == tasks[last'.task].open
          IN  /\ \A sid \in DOMAIN request_scopes' :
                     last'.rid \notin DOMAIN request_scopes'[sid].cache
              /\ tasks'[last'.task].ctx = open[Len(open)].token]_vars

\* The request scope the bindings reference: the one a get is served from.
ServingScope == scopes_instances[RequestScope]

\* C28: once the injector is attached and the middleware constructed, the
\* request scope of the middleware's factory is the scope instance the
\* bindings reference, and a get of a request-scoped key made inside a
\* create_scope block of that factory succeeds.
C28_MiddlewareUsesServingScope ==
    [][/\ (/\ app'.injector /\ middleware' # NoneValue
           /\ RequestScope \in DOMAIN scopes_instances')
          => middleware'.fields["request_scope_instance"] = scopes_instances'[RequestScope]
       /\ (/\ IsGet(last') /\ app.injector /\ middleware # NoneValue
           /\ last'.key \in DOMAIN bindings
           /\ bindings[last'.key].scope.cls = RequestScope
           /\ tasks[last'.task].open # <<>>)
          => last'.outcome = "ok"]_vars

\* C29: whenever the injector is attached, the request scope the bindings
\* reference holds the options attach_injector was called with.
C29_AttachedOptionsServe ==
    (app.injector /\ RequestScope \in DOMAIN scopes_instances)
    => request_scopes[ServingScope.sid].options = app.options

\* The thread t took a step.
Stepped(t) == threads'[t] # threads[t]

\* C25: no thread that found the key absent from the Singleton cache is kept
\* from calling the provider by what other threads do meanwhile: it makes a
\* new instance, stores it over whatever the cache holds by then, and
\* returns what the cache holds when it returns.
C25_EveryMissCallsProvider ==
    [][\A t \in Threads :
          /\ (threads[t].pc = "provide" /\ threads[t].miss /\ Stepped(t))
             => /\ threads'[t].pc = "store"
                /\ threads'[t].instance.kind = "instance"
                /\ <<threads'[t].instance.cls, threads'[t].instance.id>> \notin LiveIds
          /\ (threads[t].pc = "store" /\ Stepped(t))
             => instances'[threads[t].key] = threads[t].instance
          /\ (threads[t].pc = "return" /\ Stepped(t))
             => threads'[t].pending = instances[threads[t].key]]_vars

\* C25 witness: the last gets two threads completed asked for the same key,
\* both found it absent from the Singleton cache, and they returned
\* different instances.
C25_Witness ==
    \E t1, t2 \in Threads :
        /\ t1 # t2
        /\ threads[t1].called \in ThreadKeys /\ threads[t1].called = threads[t2].called
        /\ threads[t1].missed /\ threads[t2].missed
        /\ threads[t1].outcome = "ok" /\ threads[t2].outcome = "ok"
        /\ threads[t1].result.kind = "instance" /\ threads[t2].result.kind = "instance"
        /\ ~SameObject(threads[t1].result, threads[t2].result)

\* C26: a thread that checks the resolution set while it holds the key,
\* by whichever thread the key was added, raises CircularDependencyError, and
\* a thread that releases a key the set no longer holds raises KeyError.
C26_ResolutionSetIsShared ==
    [][\A t \in Threads :
          /\ (/\ threads[t].pc = "check" /\ Stepped(t)
              /\ threads[t].key \in currently_resolving)
             => /\ threads'[t].pc = "idle"
                /\ threads'[t].outcome = "CircularDependencyError"
          /\ (/\ threads[t].pc = "release" /\ Stepped(t)
              /\ threads[t].key \notin currently_resolving)
             => /\ threads'[t].pc = "idle"
                /\ threads'[t].outcome = "KeyError"]_vars

\* C26 witness: of two threads that ask for a class without dependencies,
\* one got KeyError from the release of its last get, and the other has just
\* got CircularDependencyError because the first is inside its next get.
C26_Witness ==
    \E t1, t2 \in Threads :
        /\ t1 # t2
        /\ threads[t1].called \in ThreadKeys /\ threads[t2].called = threads[t1].called
        /\ HasObjectInit(threads[t1].called)
        /\ threads[t1].outcome = "KeyError"
        /\ threads[t1].key = threads[t1].called
        /\ threads[t1].pc \notin {"idle", "check", "add"}
        /\ threads[t2].pc = "idle" /\ threads[t2].outcome = "CircularDependencyError"

====
